---- MODULE Spec2Model ----
(***************************************************************************)
(* FileSyncer (src/filesyncer.py): one run of main() reconciles every      *)
(* target of the target list on a thread pool (update_file), collects the  *)
(* outcomes into a run summary and appends it to a history of at most ten  *)
(* summaries.  download_file / show_progress share the progress table      *)
(* download_progress under the lock.  compare_files is the diff engine.    *)
(***************************************************************************)
EXTENDS Integers, Sequences, FiniteSets, TLC

(* ------------------------------ bounds --------------------------------- *)
\* longest byte string of a remote resource or of a local file
MaxLen == 1
\* number of consecutive invocations of the program in one behaviour
MaxRuns == 2
\* longest history log found on disk when the first run starts
MaxHistLen == 11
\* longest byte string handed to compare_files on its own
MaxCmpLen == 2
\* most chunks a streamed download is read in
MaxChunks == 2

(* ------------------------- program constants --------------------------- *)
\* ThreadPoolExecutor(max_workers=5)
max_workers == 5
\* "if len(sync_data["history"]) > 10" / "[-10:]"
HistoryCap == 10

(* ------------------------------ values --------------------------------- *)
\* The targets of the run: names are unique, and every target has a local
\* path of its own.
TargetNames == {"A", "B"}

\* A byte is a letter, a line feed, or a byte that is no valid UTF-8 ("FF").
Bytes == {"a", "\n", "FF"}
\* The bytes that occur in the remote resources and in the local files of a
\* run.
RemoteBytes == {"a"}
LocalBytes == {"a", "FF"}

SeqsUpTo(S, n) == UNION {[1..k -> S] : k \in 0..n}

\* The directory part of a local path: "" for a bare file name.
DirNames == {"", "files"}

Absent == [kind |-> "absent"]
File(data) == [kind |-> "file", data |-> data]
\* a path that exists but cannot be opened for reading
Denied == [kind |-> "denied"]

Range(s) == {s[k] : k \in DOMAIN s}

(* --------------------------- pure functions ---------------------------- *)
\* A faulty variant: the digest of no bytes is the empty string, which is what
\* calculate_md5 returns when there is no file
Md5_of_nothing_is_empty(data) == IF data = <<>> THEN <<>> ELSE <<"md5">> \o data

\* hashlib.md5(...).hexdigest(): a non-empty string, also for no bytes at
\* all, and different for different contents.  "" is the empty sequence.
Md5(data) == <<"md5">> \o data

\* calculate_md5(file_path): the digest of the file, "" when there is no
\* file; any other failure of open() is raised to the caller.
calculate_md5(entry) ==
    CASE entry.kind = "file"   -> [raised |-> FALSE, value |-> Md5(entry.data)]
      [] entry.kind = "absent" -> [raised |-> FALSE, value |-> <<>>]
      [] OTHER                 -> [raised |-> TRUE,  value |-> <<>>]

\* bytes.decode('utf-8', errors='ignore'): invalid bytes are dropped.
decode(data) == SelectSeq(data, LAMBDA b : b # "FF")

\* the index of the first line feed of s, Len(s) when it has none
LineEnd(s) ==
    IF \E k \in 1..Len(s) : s[k] = "\n"
    THEN CHOOSE k \in 1..Len(s) : s[k] = "\n" /\ \A j \in 1..(k-1) : s[j] # "\n"
    ELSE Len(s)

\* str.splitlines(keepends=True)
RECURSIVE splitlines(_)
splitlines(s) ==
    IF s = <<>> THEN <<>>
    ELSE <<SubSeq(s, 1, LineEnd(s))>> \o splitlines(SubSeq(s, LineEnd(s) + 1, Len(s)))

\* the length of the longest common prefix of two line lists
RECURSIVE CommonPrefix(_, _)
CommonPrefix(a, b) ==
    IF a # <<>> /\ b # <<>> /\ Head(a) = Head(b)
    THEN 1 + CommonPrefix(Tail(a), Tail(b))
    ELSE 0

Reverse(s) == [k \in 1..Len(s) |-> s[Len(s) + 1 - k]]

Prefixed(mark, lines) == [k \in 1..Len(lines) |-> <<mark>> \o lines[k]]

\* difflib.unified_diff(a, b, fromfile, tofile): nothing for equal line
\* lists; otherwise the two file headers, a hunk header, and the hunk: the
\* common lines as context around the removed lines and the added lines
\* (what difflib lists when the lists differ in one contiguous block).
unified_diff(a, b) ==
    IF a = b THEN <<>>
    ELSE LET p  == CommonPrefix(a, b)
             ra == SubSeq(a, p + 1, Len(a))
             rb == SubSeq(b, p + 1, Len(b))
             q  == CommonPrefix(Reverse(ra), Reverse(rb))
         IN  << <<"---">>, <<"+++">>, <<"@@">> >>
             \o Prefixed(" ", SubSeq(a, 1, p))
             \o Prefixed("-", SubSeq(ra, 1, Len(ra) - q))
             \o Prefixed("+", SubSeq(rb, 1, Len(rb) - q))
             \o Prefixed(" ", SubSeq(ra, Len(ra) - q + 1, Len(ra)))

\* compare_files(old_file, new_content) -> (has_diff, diff_lines); no
\* exception leaves it: each except branch returns a pair.
compare_files(entry, new_content) ==
    CASE entry.kind = "absent" ->
            [changed |-> TRUE, diff |-> << <<"file is new">> >>]
      [] entry.kind = "file" ->
            IF entry.data = new_content
            THEN [changed |-> FALSE, diff |-> <<>>]
            ELSE [changed |-> TRUE,
                  diff |-> unified_diff(splitlines(decode(entry.data)),
                                        splitlines(decode(new_content)))]
      [] OTHER ->
            [changed |-> FALSE, diff |-> << <<"compare failed">> >>]

\* os.path.dirname(local_path)
dirname(path) == path.dir

(* ------------------------------- state --------------------------------- *)
VARIABLES
    files_config,   \* main: the target list load_config() returned
    remote,         \* each url: the bytes it serves, and whether it can be fetched
    fs,             \* local storage: what is at each local_path
    dirs,           \* local storage: the directories that exist
    histFile,       \* sync_history.json on disk
    mainpc,         \* where main() is
    sync_data,      \* main: the history read by load_sync_history
    sync_record,    \* main: the summary of this run
    yielded,        \* main: the futures as_completed has handed out
    task,           \* one update_file call per target: its frame
    clock,          \* the number of this run (datetime.now() at its start)
    cmp_old,        \* compare_files on its own: what is at old_file
    cmp_new,        \* compare_files on its own: new_content
    cmp_out,        \* compare_files on its own: what it returned
    download_progress,  \* the progress table: file_name -> entry
    lock,           \* the lock: "free" or the thread that holds it
    dl,             \* one download_file call per target: its frame
    renderer,       \* the show_progress thread: its frame
    config_file,    \* config.json on disk
    console,        \* the diagnostics printed so far
    toppc           \* the program entry: in main(), at the wait, gone

vars == <<files_config, remote, fs, dirs, histFile, mainpc, sync_data,
          sync_record, yielded, task, clock, cmp_old, cmp_new, cmp_out,
          download_progress, lock, dl, renderer, config_file, console, toppc>>

CmpVars == <<cmp_old, cmp_new, cmp_out>>
DlVars == <<download_progress, lock, dl, renderer>>
TopVars == <<config_file, console, toppc>>

\* the order of the targets in the target list
TargetOrder == <<"A", "B">>

Target(n) == CHOOSE t \in Range(files_config) : t.name = n
local_path(n) == Target(n).local_path
url(n) == Target(n).url

\* update_file: "result = {name, status: unknown, message: '', diff: []}"
NewResult(n) == [name |-> n, status |-> "unknown", message |-> <<>>, diff |-> <<>>]

NotSubmitted(n) ==
    [pc |-> "new", local_md5 |-> <<>>, new_content |-> <<>>, result |-> NewResult(n)]

\* update_file: "except Exception as e": status error, the cause as message
Failed(t, cause) ==
    [t EXCEPT !.pc = "done", !.result.status = "error",
              !.result.message = <<"update failed", cause>>]

\* the target lists: each target has a url of its own and a local path of
\* its own, with or without a directory part
ConfigLists ==
    {[k \in DOMAIN TargetOrder |->
        [name |-> TargetOrder[k], url |-> TargetOrder[k],
         local_path |-> [dir |-> d[k], base |-> TargetOrder[k]]]]
     : d \in [DOMAIN TargetOrder -> DirNames]}

\* what the urls serve: any bytes over alphabet B; a url that is not up makes
\* urlopen(url) or read() raise
RemotesUpTo(B, len) == [TargetNames -> [data : SeqsUpTo(B, len), up : BOOLEAN]]
Remotes(B) == RemotesUpTo(B, MaxLen)

\* a file in a directory implies the directory
StorageOk(f, ds) ==
    \A p \in DOMAIN f : f[p].kind = "file" /\ p.dir # "" => p.dir \in ds

\* the history log of n earlier runs, oldest first
OldHistory(n) == [k \in 1..n |-> [timestamp |-> k - n, files |-> <<>>]]

\* no download_file call and no show_progress thread: the table is empty
NotDownloading ==
    [pc |-> "idle", total |-> 0, downloaded |-> 0, read |-> 0, ok |-> FALSE]

InitNoDl ==
    /\ download_progress = <<>>
    /\ lock = "free"
    /\ dl = [n \in TargetNames |-> NotDownloading]
    /\ renderer = [pc |-> "idle", all_finished |-> FALSE]

\* compare_files has not been called on its own
InitNoCmp ==
    /\ InitNoDl
    /\ cmp_old = Absent
    /\ cmp_new = <<>>
    /\ cmp_out = [called |-> FALSE, changed |-> FALSE, diff |-> <<>>]

\* the target list was read from the target file; nothing was printed yet
InitLoaded ==
    /\ config_file = File(files_config)
    /\ console = {}
    /\ toppc = "main"

InitRun ==
    /\ InitNoCmp
    /\ InitLoaded
    /\ mainpc = "load_history"
    /\ sync_data = [history |-> <<>>]
    /\ sync_record = [timestamp |-> 0, files |-> <<>>]
    /\ yielded = {}
    /\ task = [n \in TargetNames |-> NotSubmitted(n)]
    /\ clock = 1

Init ==
    /\ files_config \in ConfigLists
    /\ remote \in Remotes(RemoteBytes)
    /\ fs \in [{files_config[k].local_path : k \in DOMAIN files_config}
                 -> {Absent} \cup {File(d) : d \in SeqsUpTo(LocalBytes, MaxLen)}]
    /\ dirs \in SUBSET (DirNames \ {""})
    /\ StorageOk(fs, dirs)
    /\ histFile = Absent
    /\ InitRun

(* ------------------------------ history -------------------------------- *)
\* save_sync_history(history, history_file): the file holds the log
save_sync_history(history) == File(history)

\* sync_history.json that json.load cannot parse
BadJson == [kind |-> "badjson"]

\* sync_history.json that parses to something without a "history" key, or to
\* something that is not an object: [] or {} or "x"
BadShape == [kind |-> "badshape"]

\* sync_history.json that parses to {"history": null}
NullHistory == [kind |-> "nullhistory"]

\* load_sync_history(history_file): what json.load returned, as it is; a log
\* without entries, written to the file, when there is no file; a log without
\* entries, and the file left as it is, when json.load raised JSONDecodeError.
\* shape tells what sync_data["history"] is: a list ("ok"), a KeyError or
\* TypeError ("nohistory"), or None ("null")
load_sync_history(file) ==
    CASE file.kind = "absent" ->
            [data |-> [history |-> <<>>], shape |-> "ok", printed |-> {},
             file |-> save_sync_history([history |-> <<>>])]
      [] file.kind = "badjson" ->
            [data |-> [history |-> <<>>], shape |-> "ok",
             printed |-> {"history format error"}, file |-> file]
      [] file.kind = "badshape" ->
            [data |-> [history |-> <<>>], shape |-> "nohistory", printed |-> {},
             file |-> file]
      [] file.kind = "nullhistory" ->
            [data |-> [history |-> <<>>], shape |-> "null", printed |-> {},
             file |-> file]
      [] OTHER ->
            [data |-> file.data, shape |-> "ok", printed |-> {}, file |-> file]

\* A faulty variant: only the oldest entry is dropped
Trim_pops_one(h) ==
    IF Len(h) > HistoryCap THEN Tail(h) ELSE h

\* A faulty variant: the first ten are kept: history[:10]
Trim_keeps_first(h) ==
    IF Len(h) > HistoryCap THEN SubSeq(h, 1, HistoryCap) ELSE h

\* main: "if len(history) > 10: history = history[-10:]"
Trim(h) ==
    IF Len(h) > HistoryCap THEN SubSeq(h, Len(h) - HistoryCap + 1, Len(h)) ELSE h

\* A faulty variant: the run summary is put in front: insert(0, sync_record)
AppendRun_prepends(h, record) == Trim(<<record>> \o h)

\* main: append the run summary, keep the last ten
AppendRun(h, record) == Trim(Append(h, record))

(* ---------------------------- update_file ------------------------------ *)
Running == {n \in TargetNames : task[n].pc \in {"fetch", "compare", "makedirs", "write"}}

TaskFrame == UNCHANGED <<files_config, remote, histFile, mainpc, sync_data,
                         sync_record, yielded, clock, CmpVars, DlVars, TopVars>>

\* a worker takes the task and computes the digest of the local file
update_file_md5(n) ==
    /\ task[n].pc = "queued"
    /\ Cardinality(Running) < max_workers
    /\ LET h == calculate_md5(fs[local_path(n)])
       IN  task' = [task EXCEPT ![n] =
                IF h.raised THEN Failed(@, "open")
                ELSE [@ EXCEPT !.pc = "fetch", !.local_md5 = h.value]]
    /\ UNCHANGED <<fs, dirs>>
    /\ TaskFrame

\* A faulty variant: the local digest is compared with the fetched bytes, not with
\* their digest
update_file_fetch_unhashed(n) ==
    /\ task[n].pc = "fetch"
    /\ remote[url(n)].up
    /\ LET new_content == remote[url(n)].data
       IN  task' = [task EXCEPT ![n] =
                IF @.local_md5 = new_content
                THEN [@ EXCEPT !.pc = "done", !.new_content = new_content,
                               !.result.status = "unchanged",
                               !.result.message = <<"file unchanged">>]
                ELSE [@ EXCEPT !.pc = "compare", !.new_content = new_content]]
    /\ UNCHANGED <<fs, dirs>>
    /\ TaskFrame

\* A faulty variant: the save is outside the else branch, so a task with equal
\* digests goes on to create the directories and write
update_file_fetch_always_saves(n) ==
    /\ task[n].pc = "fetch"
    /\ remote[url(n)].up
    /\ LET new_content == remote[url(n)].data
       IN  task' = [task EXCEPT ![n] =
                IF @.local_md5 = Md5(new_content)
                THEN [@ EXCEPT !.pc = "makedirs", !.new_content = new_content,
                               !.result.status = "unchanged",
                               !.result.message = <<"file unchanged">>]
                ELSE [@ EXCEPT !.pc = "compare", !.new_content = new_content]]
    /\ UNCHANGED <<fs, dirs>>
    /\ TaskFrame

\* urlopen(url).read() succeeds; equal digests end the task
update_file_fetch(n) ==
    /\ task[n].pc = "fetch"
    /\ remote[url(n)].up
    /\ LET new_content == remote[url(n)].data
       IN  task' = [task EXCEPT ![n] =
                IF @.local_md5 = Md5(new_content)
                THEN [@ EXCEPT !.pc = "done", !.new_content = new_content,
                               !.result.status = "unchanged",
                               !.result.message = <<"file unchanged">>]
                ELSE [@ EXCEPT !.pc = "compare", !.new_content = new_content]]
    /\ UNCHANGED <<fs, dirs>>
    /\ TaskFrame

\* A faulty variant: the local file is opened for writing before the fetch
update_file_fetch_error_truncates(n) ==
    /\ task[n].pc = "fetch"
    /\ ~remote[url(n)].up
    /\ task' = [task EXCEPT ![n] = Failed(@, "urlopen")]
    /\ fs' = [fs EXCEPT ![local_path(n)] = File(<<>>)]
    /\ UNCHANGED dirs
    /\ TaskFrame

\* urlopen(url) or read() raises
update_file_fetch_error(n) ==
    /\ task[n].pc = "fetch"
    /\ ~remote[url(n)].up
    /\ task' = [task EXCEPT ![n] = Failed(@, "urlopen")]
    /\ UNCHANGED <<fs, dirs>>
    /\ TaskFrame

\* A faulty variant: the diff is kept only for a file that existed
update_file_compare_drops_new(n) ==
    /\ task[n].pc = "compare"
    /\ LET d == compare_files(fs[local_path(n)], task[n].new_content)
       IN  task' = [task EXCEPT ![n] =
                [@ EXCEPT !.pc = "makedirs",
                          !.result.diff =
                              IF task[n].local_md5 = <<>> THEN <<>> ELSE d.diff,
                          !.result.status =
                              IF task[n].local_md5 = <<>> THEN "new" ELSE "updated",
                          !.result.message =
                              IF task[n].local_md5 = <<>> THEN <<"new file">>
                              ELSE <<"file updated">>]]
    /\ UNCHANGED <<fs, dirs>>
    /\ TaskFrame

\* A faulty variant: nothing is saved when compare_files returned no diff lines
update_file_compare_saves_on_diff(n) ==
    /\ task[n].pc = "compare"
    /\ LET d == compare_files(fs[local_path(n)], task[n].new_content)
       IN  task' = [task EXCEPT ![n] =
                [@ EXCEPT !.pc = IF d.diff = <<>> THEN "done" ELSE "makedirs",
                          !.result.diff = d.diff,
                          !.result.status =
                              IF task[n].local_md5 = <<>> THEN "new" ELSE "updated",
                          !.result.message =
                              IF task[n].local_md5 = <<>> THEN <<"new file">>
                              ELSE <<"file updated">>]]
    /\ UNCHANGED <<fs, dirs>>
    /\ TaskFrame

\* the digests differ: compare_files, then the status from local_md5
update_file_compare(n) ==
    /\ task[n].pc = "compare"
    /\ LET d == compare_files(fs[local_path(n)], task[n].new_content)
       IN  task' = [task EXCEPT ![n] =
                [@ EXCEPT !.pc = "makedirs",
                          !.result.diff = d.diff,
                          !.result.status =
                              IF task[n].local_md5 = <<>> THEN "new" ELSE "updated",
                          !.result.message =
                              IF task[n].local_md5 = <<>> THEN <<"new file">>
                              ELSE <<"file updated">>]]
    /\ UNCHANGED <<fs, dirs>>
    /\ TaskFrame

\* os.makedirs(os.path.dirname(local_path), exist_ok=True): os.makedirs("")
\* raises FileNotFoundError
update_file_makedirs(n) ==
    /\ task[n].pc = "makedirs"
    /\ IF dirname(local_path(n)) = ""
       THEN /\ task' = [task EXCEPT ![n] = Failed(@, "makedirs")]
            /\ UNCHANGED dirs
       ELSE /\ task' = [task EXCEPT ![n].pc = "write"]
            /\ dirs' = dirs \cup {dirname(local_path(n))}
    /\ UNCHANGED fs
    /\ TaskFrame

\* open(local_path, 'wb') and f.write(new_content)
update_file_write(n) ==
    /\ task[n].pc = "write"
    /\ IF dirname(local_path(n)) = "" \/ dirname(local_path(n)) \in dirs
       THEN /\ fs' = [fs EXCEPT ![local_path(n)] = File(task[n].new_content)]
            /\ task' = [task EXCEPT ![n].pc = "done"]
       ELSE /\ task' = [task EXCEPT ![n] = Failed(@, "open")]
            /\ UNCHANGED fs
    /\ UNCHANGED dirs
    /\ TaskFrame

(* -------------------------------- main --------------------------------- *)
MainFrame == UNCHANGED <<files_config, remote, fs, dirs, clock, CmpVars, DlVars>>

\* load_sync_history("sync_history.json"); "if sync_data["history"]:" raises
\* KeyError or TypeError when there is no such key; else the run summary is
\* started
main_load_history ==
    /\ mainpc = "load_history"
    /\ LET l == load_sync_history(histFile)
       IN  /\ sync_data' = l.data
           /\ histFile' = l.file
           /\ console' = console \cup l.printed
           /\ IF l.shape = "nohistory"
              THEN /\ mainpc' = "raised"
                   /\ UNCHANGED sync_record
              ELSE /\ mainpc' = "submit"
                   /\ sync_record' = [timestamp |-> clock, files |-> <<>>]
    /\ UNCHANGED <<yielded, task, config_file, toppc>>
    /\ MainFrame

\* executor.submit(update_file, file_info), in the order of the list
main_submit(k) ==
    /\ mainpc = "submit"
    /\ k \in DOMAIN files_config
    /\ task[files_config[k].name].pc = "new"
    /\ \A j \in 1..(k-1) : task[files_config[j].name].pc # "new"
    /\ task' = [task EXCEPT ![files_config[k].name].pc = "queued"]
    /\ mainpc' = IF k = Len(files_config) THEN "collect" ELSE "submit"
    /\ UNCHANGED <<histFile, sync_data, sync_record, yielded, TopVars>>
    /\ MainFrame

\* as_completed hands out a finished future; its result joins the summary
main_collect(n) ==
    /\ mainpc = "collect"
    /\ task[n].pc = "done"
    /\ n \notin yielded
    /\ yielded' = yielded \cup {n}
    /\ sync_record' = [sync_record EXCEPT !.files = Append(@, task[n].result)]
    /\ UNCHANGED <<histFile, sync_data, mainpc, task, TopVars>>
    /\ MainFrame

\* A faulty variant: the loop is left after the first result
AllCollected_first == yielded # {}

\* as_completed is exhausted when every submitted future was handed out
AllCollected == yielded = TargetNames

\* the loop and the executor are left; the summary is appended, the log
\* trimmed and saved; "sync_data["history"].append" raises AttributeError
\* when the file held {"history": null}
main_append_save ==
    /\ mainpc = "collect"
    /\ AllCollected
    /\ IF histFile.kind = "nullhistory"
       THEN /\ mainpc' = "raised"
            /\ UNCHANGED <<sync_data, histFile>>
       ELSE /\ sync_data' = [sync_data EXCEPT !.history = AppendRun(@, sync_record)]
            /\ histFile' = save_sync_history(sync_data')
            /\ mainpc' = "finished"
    /\ UNCHANGED <<sync_record, yielded, task, TopVars>>
    /\ MainFrame

\* the program is started again: storage is as it was left, the urls serve
\* what they served, and each may have come up or gone down
Rerun ==
    /\ mainpc = "finished"
    /\ clock < MaxRuns
    /\ mainpc' = "load_history"
    /\ sync_data' = [history |-> <<>>]
    /\ sync_record' = [timestamp |-> 0, files |-> <<>>]
    /\ yielded' = {}
    /\ task' = [n \in TargetNames |-> NotSubmitted(n)]
    /\ clock' = clock + 1
    /\ remote' \in {[n \in TargetNames |-> [data |-> remote[n].data, up |-> u[n]]]
                     : u \in [TargetNames -> BOOLEAN]}
    /\ UNCHANGED <<files_config, fs, dirs, histFile, CmpVars, DlVars, TopVars>>

\* one invocation of the program
NextRun ==
    \/ \E n \in TargetNames : update_file_md5(n)
    \/ \E n \in TargetNames : update_file_fetch(n)
    \/ \E n \in TargetNames : update_file_fetch_error(n)
    \/ \E n \in TargetNames : update_file_compare(n)
    \/ \E n \in TargetNames : update_file_makedirs(n)
    \/ \E n \in TargetNames : update_file_write(n)
    \/ main_load_history
    \/ \E k \in DOMAIN TargetOrder : main_submit(k)
    \/ \E n \in TargetNames : main_collect(n)
    \/ main_append_save

\* invocations one after the other
Next ==
    \/ NextRun
    \/ Rerun

\* one run over any target list, any remote contents and any local storage
Spec == Init /\ [][NextRun]_vars

\* repeated runs: the local files are absent or empty when the first starts
InitRuns ==
    /\ files_config \in ConfigLists
    /\ remote \in Remotes(RemoteBytes)
    /\ fs \in [{files_config[k].local_path : k \in DOMAIN files_config}
                 -> {Absent, File(<<>>)}]
    /\ dirs \in SUBSET (DirNames \ {""})
    /\ StorageOk(fs, dirs)
    /\ histFile = Absent
    /\ InitRun

SpecRuns == InitRuns /\ [][Next]_vars

\* repeated runs over a history file that holds any number of earlier runs
InitHist ==
    /\ files_config \in ConfigLists
    /\ remote = [n \in TargetNames |-> [data |-> <<"a">>, up |-> TRUE]]
    /\ fs = [p \in {files_config[k].local_path : k \in DOMAIN files_config} |-> Absent]
    /\ dirs = {}
    /\ histFile \in {Absent} \cup {File([history |-> OldHistory(n)]) : n \in 0..MaxHistLen}
    /\ InitRun

SpecHist == InitHist /\ [][Next]_vars

(* ------------------- the program from its entry on --------------------- *)
\* load_config: the two example targets, both under files/
default_files ==
    [k \in DOMAIN TargetOrder |->
        [name |-> TargetOrder[k], url |-> TargetOrder[k],
         local_path |-> [dir |-> "files", base |-> TargetOrder[k]]]]

\* load_config(config_file): the list of the file, under "files" or as the
\* whole file; the example targets, and a file that holds them, when there is
\* no file; no targets when json.load raised JSONDecodeError. For a file that
\* parses to neither, "raise ValueError" is caught by neither except clause
load_config(file) ==
    CASE file.kind = "absent" ->
            [raised |-> FALSE, value |-> default_files, file |-> File(default_files),
             printed |-> {"config not found", "config created"}]
      [] file.kind = "badjson" ->
            [raised |-> FALSE, value |-> <<>>, file |-> file,
             printed |-> {"config format error"}]
      [] file.kind = "badshape" ->
            [raised |-> TRUE, value |-> <<>>, file |-> file, printed |-> {}]
      [] OTHER ->
            [raised |-> FALSE, value |-> file.data, file |-> file, printed |-> {}]

\* main: files_config = load_config(); "if not files_config: ... return"
main_load_config ==
    /\ mainpc = "load_config"
    /\ LET c == load_config(config_file)
       IN  /\ config_file' = c.file
           /\ files_config' = c.value
           /\ console' = console \cup c.printed \cup
                   (IF ~c.raised /\ c.value = <<>> THEN {"no valid targets"} ELSE {})
           /\ mainpc' = IF c.raised THEN "raised"
                         ELSE IF c.value = <<>> THEN "returned"
                         ELSE "load_history"
    /\ UNCHANGED <<remote, fs, dirs, histFile, sync_data, sync_record, yielded,
                   task, clock, toppc, CmpVars, DlVars>>

\* the user interrupts the program while main() runs
main_interrupt ==
    /\ toppc = "main"
    /\ mainpc \in {"load_config", "load_history", "submit", "collect"}
    /\ mainpc' = "interrupted"
    /\ UNCHANGED <<histFile, sync_data, sync_record, yielded, task, TopVars>>
    /\ MainFrame

\* an exception leaves the "with ThreadPoolExecutor" block only after the
\* executor has shut down, which waits for the submitted calls
ExecutorDrained == \A n \in TargetNames : task[n].pc \in {"new", "done"}

\* A faulty variant: the wait is the last statement of the try block
AfterMain_no_finally(pc) ==
    IF pc \in {"finished", "returned"} THEN "wait" ELSE "exited"

\* "finally: wait_for_exit()": whatever way main() was left
AfterMain(pc) == "wait"

\* "except KeyboardInterrupt" and "except Exception": the failure is reported
entry_except ==
    /\ toppc = "main"
    /\ mainpc \in {"interrupted", "raised"}
    /\ ExecutorDrained
    /\ console' = console \cup
           {IF mainpc = "interrupted" THEN "cancelled by user" ELSE "unexpected error"}
    /\ toppc' = AfterMain(mainpc)
    /\ UNCHANGED <<histFile, mainpc, sync_data, sync_record, yielded, task,
                   config_file>>
    /\ MainFrame

\* main() returned
entry_finally ==
    /\ toppc = "main"
    /\ mainpc \in {"finished", "returned"}
    /\ toppc' = AfterMain(mainpc)
    /\ UNCHANGED <<histFile, mainpc, sync_data, sync_record, yielded, task,
                   config_file, console>>
    /\ MainFrame

\* wait_for_exit(): the user acknowledges and the program is gone
wait_for_exit ==
    /\ toppc = "wait"
    /\ toppc' = "exited"
    /\ UNCHANGED <<histFile, mainpc, sync_data, sync_record, yielded, task,
                   config_file, console>>
    /\ MainFrame

NextMain ==
    \/ NextRun
    \/ main_load_config
    \/ main_interrupt
    \/ entry_except
    \/ entry_finally
    \/ wait_for_exit

\* the history files a run may find
HistoryFiles ==
    {Absent, BadJson, BadShape, NullHistory}
        \cup {File([history |-> OldHistory(n)]) : n \in 0..MaxLen}

\* the target files a run may find; BadJson and BadShape as for the history
ConfigFiles ==
    {Absent, BadJson, BadShape} \cup {File(c) : c \in ConfigLists \cup {<<>>}}

\* one run of the program from its entry, over any target file, any history
\* file and empty local storage
InitMain ==
    /\ config_file \in ConfigFiles
    /\ files_config = <<>>
    /\ remote \in Remotes(RemoteBytes)
    /\ fs = [p \in [dir : DirNames, base : TargetNames] |-> Absent]
    /\ dirs = {}
    /\ histFile \in HistoryFiles
    /\ mainpc = "load_config"
    /\ sync_data = [history |-> <<>>]
    /\ sync_record = [timestamp |-> 0, files |-> <<>>]
    /\ yielded = {}
    /\ task = [n \in TargetNames |-> NotSubmitted(n)]
    /\ clock = 1
    /\ console = {}
    /\ toppc = "main"
    /\ InitNoCmp

SpecMain == InitMain /\ [][NextMain]_vars

\* the same, where a step that can be taken is taken in the end: the workers
\* and the main thread are scheduled, the user answers the prompt
SpecMainFair == SpecMain /\ WF_vars(NextMain)

(* --------------------- compare_files on its own ------------------------ *)
\* the program is not running; old_file is absent, a file, or cannot be read
InitCmp ==
    /\ files_config = <<>>
    /\ remote = [n \in TargetNames |-> [data |-> <<>>, up |-> FALSE]]
    /\ fs = <<>>
    /\ dirs = {}
    /\ histFile = Absent
    /\ mainpc = "idle"
    /\ sync_data = [history |-> <<>>]
    /\ sync_record = [timestamp |-> 0, files |-> <<>>]
    /\ yielded = {}
    /\ task = [n \in TargetNames |-> NotSubmitted(n)]
    /\ clock = 0
    /\ cmp_old \in {Absent, Denied} \cup {File(d) : d \in SeqsUpTo(Bytes, MaxCmpLen)}
    /\ cmp_new \in SeqsUpTo(Bytes, MaxCmpLen)
    /\ cmp_out = [called |-> FALSE, changed |-> FALSE, diff |-> <<>>]
    /\ InitNoDl
    /\ InitLoaded

\* has_diff, diff_lines = compare_files(old_file, new_content)
compare_call ==
    /\ ~cmp_out.called
    /\ LET r == compare_files(cmp_old, cmp_new)
       IN  cmp_out' = [called |-> TRUE, changed |-> r.changed, diff |-> r.diff]
    /\ UNCHANGED <<files_config, remote, fs, dirs, histFile, mainpc, sync_data,
                   sync_record, yielded, task, clock, cmp_old, cmp_new, DlVars,
                   TopVars>>

NextCmp == compare_call

SpecCmp == InitCmp /\ [][NextCmp]_vars

(* ------------------ download_file and show_progress -------------------- *)
DlFrame == UNCHANGED <<files_config, remote, histFile, mainpc, sync_data,
                       sync_record, yielded, task, clock, CmpVars, TopVars>>

\* the frame of download_file(url, local_path, file_name) when it is called
Downloading ==
    [pc |-> "makedirs", total |-> 0, downloaded |-> 0, read |-> 0, ok |-> FALSE]

\* os.makedirs(os.path.dirname(local_path), exist_ok=True)
download_file_makedirs(n) ==
    /\ dl[n].pc = "makedirs"
    /\ IF dirname(local_path(n)) = ""
       THEN /\ dl' = [dl EXCEPT ![n].pc = "except_lock"]
            /\ UNCHANGED dirs
       ELSE /\ dl' = [dl EXCEPT ![n].pc = "urlopen"]
            /\ dirs' = dirs \cup {dirname(local_path(n))}
    /\ UNCHANGED <<fs, download_progress, lock, renderer>>
    /\ DlFrame

\* urllib.request.urlopen(url); total_size is the content-length header, 0
\* when the server sends none
download_file_urlopen(n) ==
    /\ dl[n].pc = "urlopen"
    /\ IF remote[url(n)].up
       THEN \E total \in {0, Len(remote[url(n)].data)} :
                dl' = [dl EXCEPT ![n].pc = "init_lock", ![n].total = total]
       ELSE dl' = [dl EXCEPT ![n].pc = "except_lock"]
    /\ UNCHANGED <<fs, dirs, download_progress, lock, renderer>>
    /\ DlFrame

\* the statement after "with lock:" at each of the four places
LockedPc(pc) ==
    CASE pc = "init_lock"   -> "init"
      [] pc = "update_lock" -> "update"
      [] pc = "finish_lock" -> "finish"
      [] pc = "except_lock" -> "except_finish"

\* A faulty variant: the body runs without taking the lock
download_file_unlocked(n) ==
    /\ dl[n].pc \in {"init_lock", "update_lock", "finish_lock", "except_lock"}
    /\ dl' = [dl EXCEPT ![n].pc = LockedPc(@)]
    /\ UNCHANGED <<fs, dirs, download_progress, lock, renderer>>
    /\ DlFrame

\* "with lock:": the thread waits until the lock is free and takes it
download_file_lock(n) ==
    /\ dl[n].pc \in {"init_lock", "update_lock", "finish_lock", "except_lock"}
    /\ lock = "free"
    /\ lock' = n
    /\ dl' = [dl EXCEPT ![n].pc = LockedPc(@)]
    /\ UNCHANGED <<fs, dirs, download_progress, renderer>>
    /\ DlFrame

\* download_progress[file_name] = {total, downloaded: 0, finished: False}
download_file_init(n) ==
    /\ dl[n].pc = "init"
    /\ download_progress' =
          [k \in DOMAIN download_progress \cup {n} |->
              IF k = n
              THEN [total |-> dl[n].total, downloaded |-> 0, finished |-> FALSE]
              ELSE download_progress[k]]
    /\ lock' = "free"
    /\ dl' = [dl EXCEPT ![n].pc = "open"]
    /\ UNCHANGED <<fs, dirs, renderer>>
    /\ DlFrame

\* open(local_path, 'wb'): the file is created or emptied
download_file_open(n) ==
    /\ dl[n].pc = "open"
    /\ fs' = [fs EXCEPT ![local_path(n)] = File(<<>>)]
    /\ dl' = [dl EXCEPT ![n].pc = "read"]
    /\ UNCHANGED <<dirs, download_progress, lock, renderer>>
    /\ DlFrame

\* chunk = response.read(8192); f.write(chunk); downloaded += len(chunk).
\* A chunk is one element of the data; no chunk is left: the loop ends.
download_file_read(n) ==
    /\ dl[n].pc = "read"
    /\ IF dl[n].read < Len(remote[url(n)].data)
       THEN /\ fs' = [fs EXCEPT ![local_path(n)] =
                        File(Append(@.data, remote[url(n)].data[dl[n].read + 1]))]
            /\ dl' = [dl EXCEPT ![n].pc = "update_lock",
                                ![n].read = @ + 1,
                                ![n].downloaded = @ + 1]
       ELSE /\ dl' = [dl EXCEPT ![n].pc = "finish_lock"]
            /\ UNCHANGED fs
    /\ UNCHANGED <<dirs, download_progress, lock, renderer>>
    /\ DlFrame

\* response.read(8192) raises: the connection is lost while streaming
download_file_read_error(n) ==
    /\ dl[n].pc = "read"
    /\ dl' = [dl EXCEPT ![n].pc = "except_lock"]
    /\ UNCHANGED <<fs, dirs, download_progress, lock, renderer>>
    /\ DlFrame

\* download_progress[file_name]["downloaded"] = downloaded
download_file_update(n) ==
    /\ dl[n].pc = "update"
    /\ download_progress' = [download_progress EXCEPT ![n].downloaded = dl[n].downloaded]
    /\ lock' = "free"
    /\ dl' = [dl EXCEPT ![n].pc = "read"]
    /\ UNCHANGED <<fs, dirs, renderer>>
    /\ DlFrame

\* download_progress[file_name]["finished"] = True; return True
download_file_finish(n) ==
    /\ dl[n].pc = "finish"
    /\ download_progress' = [download_progress EXCEPT ![n].finished = TRUE]
    /\ lock' = "free"
    /\ dl' = [dl EXCEPT ![n].pc = "done", ![n].ok = TRUE]
    /\ UNCHANGED <<fs, dirs, renderer>>
    /\ DlFrame

\* "except Exception as e: with lock: if file_name in download_progress:
\* ...["finished"] = True"; return False
download_file_except_finish(n) ==
    /\ dl[n].pc = "except_finish"
    /\ download_progress' =
          IF n \in DOMAIN download_progress
          THEN [download_progress EXCEPT ![n].finished = TRUE]
          ELSE download_progress
    /\ lock' = "free"
    /\ dl' = [dl EXCEPT ![n].pc = "done", ![n].ok = FALSE]
    /\ UNCHANGED <<fs, dirs, renderer>>
    /\ DlFrame

\* show_progress: "with lock:" at the top of the loop
show_progress_lock ==
    /\ renderer.pc = "poll"
    /\ lock = "free"
    /\ lock' = "renderer"
    /\ renderer' = [renderer EXCEPT !.pc = "render"]
    /\ UNCHANGED <<fs, dirs, download_progress, dl>>
    /\ DlFrame

\* A faulty variant: any(...) in the place of all(...)
AllFinished_any(table) == \E k \in DOMAIN table : table[k].finished

\* all(info["finished"] for info in download_progress.values())
AllFinished(table) == \A k \in DOMAIN table : table[k].finished

\* show_progress: all_finished is computed and the table printed under the
\* lock; the loop ends when all_finished, else it sleeps and polls again
show_progress_render ==
    /\ renderer.pc = "render"
    /\ LET all_finished == AllFinished(download_progress)
       IN  renderer' = [pc |-> IF all_finished THEN "stopped" ELSE "poll",
                        all_finished |-> all_finished]
    /\ lock' = "free"
    /\ UNCHANGED <<fs, dirs, download_progress, dl>>
    /\ DlFrame

NextDl ==
    \/ \E n \in TargetNames : download_file_makedirs(n)
    \/ \E n \in TargetNames : download_file_urlopen(n)
    \/ \E n \in TargetNames : download_file_lock(n)
    \/ \E n \in TargetNames : download_file_init(n)
    \/ \E n \in TargetNames : download_file_open(n)
    \/ \E n \in TargetNames : download_file_read(n)
    \/ \E n \in TargetNames : download_file_read_error(n)
    \/ \E n \in TargetNames : download_file_update(n)
    \/ \E n \in TargetNames : download_file_finish(n)
    \/ \E n \in TargetNames : download_file_except_finish(n)
    \/ show_progress_lock
    \/ show_progress_render

\* one download_file call per target and the show_progress thread, started
\* together over empty local storage
InitDl ==
    /\ files_config \in ConfigLists
    /\ remote \in RemotesUpTo(RemoteBytes, MaxChunks)
    /\ fs = [p \in {files_config[k].local_path : k \in DOMAIN files_config} |-> Absent]
    /\ dirs = {}
    /\ histFile = Absent
    /\ mainpc = "idle"
    /\ sync_data = [history |-> <<>>]
    /\ sync_record = [timestamp |-> 0, files |-> <<>>]
    /\ yielded = {}
    /\ task = [n \in TargetNames |-> NotSubmitted(n)]
    /\ clock = 0
    /\ cmp_old = Absent
    /\ cmp_new = <<>>
    /\ cmp_out = [called |-> FALSE, changed |-> FALSE, diff |-> <<>>]
    /\ download_progress = <<>>
    /\ lock = "free"
    /\ dl = [n \in TargetNames |-> Downloading]
    /\ renderer = [pc |-> "poll", all_finished |-> FALSE]
    /\ InitLoaded

SpecDl == InitDl /\ [][NextDl]_vars

\* the same, where the show_progress thread is scheduled: it is not kept
\* from the lock for ever once the lock stays free
SpecDlFair == SpecDl /\ WF_vars(show_progress_lock \/ show_progress_render)

(* ------------------------------ claims --------------------------------- *)
\* the digest of what is at the local path of target n now
LocalDigest(n) == calculate_md5(fs[local_path(n)]).value
\* the names of the outcomes of the run summary, in order
OutcomeNames == [k \in DOMAIN sync_record.files |-> sync_record.files[k].name]
\* the outcome the run summary holds for target n
OutcomeOf(n) == CHOOSE o \in Range(sync_record.files) : o.name = n

\* C1: when the run is over, every fetch succeeded and no fetched content
\* had the digest of the local file, the run summary holds exactly one
\* outcome per target, each new or updated, and every local file has the
\* digest of the content fetched for it.
C1_AllFetchedAllWritten ==
    ( /\ mainpc = "finished"
      /\ \A n \in TargetNames :
            remote[url(n)].up /\ task[n].local_md5 # Md5(remote[url(n)].data) )
    => /\ Len(sync_record.files) = Cardinality(TargetNames)
       /\ Range(OutcomeNames) = TargetNames
       /\ \A n \in TargetNames :
            /\ OutcomeOf(n).status \in {"new", "updated"}
            /\ LocalDigest(n) = Md5(remote[url(n)].data)

\* C2: a target whose fetch fails ends with status error and a cause, what
\* is at its local path has the digest it had when the task started, and
\* when the run is over the summary holds an outcome for every target.
C2_FetchFailureContained ==
    /\ \A n \in TargetNames :
          task[n].pc = "done" /\ ~remote[url(n)].up
          => /\ task[n].result.status = "error"
             /\ task[n].result.message # <<>>
             /\ LocalDigest(n) = task[n].local_md5
    /\ ( mainpc = "finished" /\ (\E n \in TargetNames : ~remote[url(n)].up)
         => /\ Range(OutcomeNames) = TargetNames
            /\ \A n \in TargetNames : OutcomeOf(n) = task[n].result )

\* C2 witness: the run is over, the fetch of A failed over an existing local
\* file, and B was fetched and written.
C2_Witness ==
    /\ mainpc = "finished"
    /\ ~remote[url("A")].up
    /\ fs[local_path("A")].kind = "file"
    /\ OutcomeOf("A").status = "error"
    /\ OutcomeOf("B").status = "new"

\* the summary of the run before this one, as this run loaded it
PrevRun ==
    LET h == sync_data.history
    IN  IF mainpc = "finished" THEN h[Len(h) - 1] ELSE h[Len(h)]
\* this is a repeated run, and the run before it wrote the content it
\* fetched for target n to its local path
PrevWrote(n) ==
    /\ clock >= 2
    /\ mainpc \in {"submit", "collect", "finished"}
    /\ \E o \in Range(PrevRun.files) : o.name = n /\ o.status \in {"new", "updated"}

\* C3: when the run before wrote the fetched content of a target and the
\* url serves the same content to the repeated run, the outcome of the
\* repeated run is unchanged, and no step of the repeated run changes what
\* is at the local path.
C3_RepeatIsUnchanged ==
    /\ [](\A n \in TargetNames :
            PrevWrote(n) /\ remote[url(n)].up /\ task[n].pc = "done"
            => /\ task[n].result.status = "unchanged"
               /\ task[n].result.diff = <<>>
               /\ fs[local_path(n)] = File(remote[url(n)].data))
    /\ [][\A n \in TargetNames :
            PrevWrote(n) => fs'[local_path(n)] = fs[local_path(n)]]_vars

\* C3 witness: the first run updated the local file of A, the repeated run
\* is over and found it unchanged.
C3_Witness ==
    /\ clock = 2
    /\ mainpc = "finished"
    /\ \E o \in Range(PrevRun.files) : o.name = "A" /\ o.status = "updated"
    /\ OutcomeOf("A").status = "unchanged"

\* C4: the history log a run has saved holds at most ten summaries,
\* whatever the length of the log the run loaded.
C4_SavedHistoryBounded ==
    mainpc = "finished"
    => /\ Len(sync_data.history) <= HistoryCap
       /\ histFile.kind = "file"
       /\ Len(histFile.data.history) <= HistoryCap

\* C4 witness: the second of two runs is over, the log holds ten summaries
\* and the three oldest of the eleven the first run loaded are gone.
C4_Witness ==
    /\ mainpc = "finished"
    /\ clock = 2
    /\ Len(histFile.data.history) = HistoryCap
    /\ histFile.data.history[1].timestamp = -7

\* C5: the step that appends the run summary turns a log of ten into a log
\* of ten: the summary last, before it the former entries 2..10 in their
\* order, the former first entry gone; a shorter log becomes the log
\* followed by the summary.  The saved file holds that log.
C5_FifoEviction ==
    [][mainpc = "collect" /\ mainpc' = "finished"
       => LET old == sync_data.history
              new == sync_data'.history
          IN  /\ Len(old) = HistoryCap
                 => /\ Len(new) = HistoryCap
                    /\ new[HistoryCap] = sync_record
                    /\ \A k \in 1..(HistoryCap - 1) : new[k] = old[k + 1]
                    /\ old[1] \notin Range(new)
              /\ Len(old) < HistoryCap => new = Append(old, sync_record)
              /\ histFile'.data.history = new]_vars

\* C5 witness: a run that loaded ten summaries is over: its summary is the
\* tenth and the second of the loaded ones is the first.
C5_Witness ==
    /\ mainpc = "finished"
    /\ clock = 1
    /\ Len(sync_data.history) = HistoryCap
    /\ sync_data.history[HistoryCap] = sync_record
    /\ sync_data.history[1].timestamp = -8

\* C8: the summary is appended and the log saved only when every task has
\* ended and every result was collected; from then on no task takes a step
\* and no result joins the summary.
C8_AppendAfterAllTasks ==
    /\ [](mainpc = "finished"
          => /\ \A n \in TargetNames : task[n].pc = "done" /\ n \in yielded
             /\ Len(sync_record.files) = Cardinality(TargetNames)
             /\ sync_data.history[Len(sync_data.history)] = sync_record)
    /\ [][mainpc = "finished" /\ mainpc' = "finished"
          => task' = task /\ sync_record' = sync_record]_vars

\* C8 witness: the run is over and B, submitted last, was collected first:
\* main waited for A after the first result.
C8_Witness ==
    /\ mainpc = "finished"
    /\ OutcomeNames = <<"B", "A">>
    /\ \A n \in TargetNames : task[n].pc = "done"

\* C9 (as claimed): every outcome whose status is not updated carries an
\* empty diff.
C9_DiffOnlyWhenUpdated ==
    \A n \in TargetNames :
        task[n].pc = "done" /\ task[n].result.status # "updated"
        => task[n].result.diff = <<>>

\* C9 (amended): an unchanged outcome carries an empty diff, and so does the
\* error outcome of a failed fetch; a new outcome carries the one line
\* compare_files returns for an absent file; an error raised after the diff
\* was computed leaves that diff in the outcome.
C9_DiffByStatus ==
    \A n \in TargetNames :
        task[n].pc = "done"
        => /\ task[n].result.status = "unchanged" => task[n].result.diff = <<>>
           /\ task[n].result.status = "error" /\ ~remote[url(n)].up
                 => task[n].result.diff = <<>>
           /\ task[n].result.status = "new"
                 => task[n].result.diff = << <<"file is new">> >>
           /\ task[n].result.status = "error" /\ remote[url(n)].up
                 => task[n].result.diff =
                       compare_files(fs[local_path(n)], task[n].new_content).diff

\* C9 witness: a task ended with status new and the one-line diff.
C9_Witness ==
    \E n \in TargetNames :
        /\ task[n].pc = "done"
        /\ task[n].result.status = "new"
        /\ task[n].result.diff = << <<"file is new">> >>

\* C10: when compare_files fails on anything but an absent old file, it
\* returns changed = true and exactly one diff line.
C10_CompareFailureIsChanged ==
    cmp_out.called /\ cmp_old.kind = "denied"
    => cmp_out.changed /\ Len(cmp_out.diff) = 1

\* C6 (as claimed): every download_file call that has ended has left a
\* progress entry for its target, with finished = true.
C6_EveryExitLeavesFinishedEntry ==
    \A n \in TargetNames :
        dl[n].pc = "done"
        => n \in DOMAIN download_progress /\ download_progress[n].finished

\* a thread is at a statement that reads or writes the progress table
InTable(n) == dl[n].pc \in {"init", "update", "finish", "except_finish"}
RendererInTable == renderer.pc = "render"

\* C7: a thread that is at a read or a write of the progress table holds
\* the lock, so no two threads are there at once; the table changes only
\* in a step of the thread that holds the lock, and never while the
\* renderer reads it.
C7_TableOnlyUnderLock ==
    /\ [](/\ \A n \in TargetNames : InTable(n) => lock = n
          /\ RendererInTable => lock = "renderer"
          /\ Cardinality({n \in TargetNames : InTable(n)})
               + (IF RendererInTable THEN 1 ELSE 0) <= 1)
    /\ [][download_progress' # download_progress
          => /\ \E n \in TargetNames : lock = n /\ InTable(n) /\ dl'[n] # dl[n]
             /\ ~RendererInTable]_vars

\* C7 witness: the renderer reads a table with an unfinished entry while a
\* download waits for the lock to write its progress.
C7_Witness ==
    /\ RendererInTable
    /\ lock = "renderer"
    /\ \E n \in TargetNames : dl[n].pc = "update_lock"
    /\ \E k \in DOMAIN download_progress : ~download_progress[k].finished

\* the ways main() is left
MainLeft == {"finished", "returned", "interrupted", "raised"}

\* C11: loading the history never aborts a run: whatever sync_history.json
\* holds, a run whose target list was loaded is not ended by an exception.
C11_HistoryLoadNeverAborts ==
    config_file.kind # "badshape" => mainpc # "raised"

\* C12: load_config never raises: once main is past it over a target file
\* that is malformed in either way, it returned no targets and printed the
\* diagnostic; over no target file it returned the example targets and wrote
\* them to the file.
C12_LoadConfigNeverRaises ==
    /\ config_file.kind \in {"badjson", "badshape"}
         /\ mainpc \notin {"load_config", "interrupted"}
       => /\ mainpc = "returned"
          /\ files_config = <<>>
          /\ "config format error" \in console
    /\ "config not found" \in console
       => /\ files_config = default_files
          /\ config_file = File(default_files)

\* C13: whichever way main() is left - it finished, it returned early, the
\* user interrupted it, it raised - the program comes to the wait, having
\* reported the interrupt or the exception, and it is gone only from the wait.
C13_AlwaysWaitsBeforeExit ==
    /\ [](toppc # "main" => mainpc \in MainLeft)
    /\ [](toppc # "main" /\ mainpc = "interrupted" => "cancelled by user" \in console)
    /\ [](toppc # "main" /\ mainpc = "raised" => "unexpected error" \in console)
    /\ [][toppc' = "exited" => toppc \in {"wait", "exited"}]_vars
    /\ (toppc = "main" /\ mainpc \in MainLeft ~> toppc = "wait")

\* the user interrupted a run in which a call had ended and another had not
\* been taken by a worker; the program waited and is gone
C13_Witness ==
    /\ toppc = "exited"
    /\ mainpc = "interrupted"
    /\ \E n \in TargetNames : task[n].result.status = "error"
    /\ \E n \in TargetNames : task[n].result.status = "new"

\* the entries of the saved log that carry the timestamp of this run
ThisRunSaved ==
    IF histFile.kind = "file"
    THEN {k \in DOMAIN histFile.data.history : histFile.data.history[k].timestamp = clock}
    ELSE {}

\* C14 as stated: after every run that ends without an exception, whatever
\* load_config returned, the last entry of the saved log is the summary of
\* this run.
C14_EveryNormalRunAppends ==
    mainpc \in {"finished", "returned"} =>
        /\ histFile.kind = "file"
        /\ ThisRunSaved = {Len(histFile.data.history)}

\* C14: after a run over a target list that is not empty and that ends
\* without an exception, the saved log ends with the summary of this run,
\* stamped with the start of the run, one result per target, and holds no
\* other entry of this run; over an empty target list main returns before
\* the history is loaded, and nothing is appended.
C14_NonEmptyRunAppends ==
    /\ mainpc = "finished" =>
          /\ files_config # <<>>
          /\ histFile = save_sync_history(sync_data)
          /\ ThisRunSaved = {Len(histFile.data.history)}
          /\ histFile.data.history[Len(histFile.data.history)] = sync_record
          /\ sync_record.timestamp = clock
          /\ Len(sync_record.files) = Len(files_config)
    /\ mainpc = "returned" =>
          /\ files_config = <<>>
          /\ ThisRunSaved = {}
          /\ sync_record.timestamp = 0

\* a run over a log of one earlier run has finished
C14_Witness ==
    /\ mainpc = "finished"
    /\ Len(histFile.data.history) = 2
    /\ toppc = "exited"

\* target n was fetched and what was fetched has not the digest of the local
\* file
FetchedAndDiffers(n) ==
    /\ remote[url(n)].up
    /\ task[n].local_md5 # Md5(remote[url(n)].data)

\* C15: when a task ends with the write done, its status is new exactly when
\* there was no file at the local path, and updated exactly when there was a
\* file, empty or not, whose digest differs from the digest of what was
\* fetched. The local path holds until the write what it held when the
\* digest was computed.
C15_NewIffNoLocalFile ==
    [][\A n \in TargetNames :
          task[n].pc = "write" /\ task'[n].pc = "done"
              /\ task'[n].result.status # "error"
          => /\ task'[n].result.status \in {"new", "updated"}
             /\ task'[n].result.status = "new"
                    <=> fs[local_path(n)].kind = "absent"
             /\ task'[n].result.status = "updated"
                    <=> /\ fs[local_path(n)].kind = "file"
                        /\ Md5(fs[local_path(n)].data) # Md5(task[n].new_content)]_vars

\* an empty local file was replaced by fetched bytes: updated, not new
C15_Witness ==
    \E n \in TargetNames :
        /\ task[n].pc = "done"
        /\ task[n].result.status = "updated"
        /\ task[n].local_md5 = Md5(<<>>)
        /\ task[n].new_content # <<>>
        /\ fs[local_path(n)] = File(task[n].new_content)

\* C16: a step of a task whose fetch succeeded with the digest of the local
\* file ends the task at once: status unchanged with a message, no diff, no
\* directory created, no file written. An outcome with status unchanged has
\* no diff lines.
C16_UnchangedTouchesNothing ==
    /\ [][\A n \in TargetNames :
            task[n].pc = "fetch" /\ task'[n] # task[n] /\ remote[url(n)].up
                /\ task[n].local_md5 = Md5(remote[url(n)].data)
            => /\ task'[n].pc = "done"
               /\ task'[n].result.status = "unchanged"
               /\ task'[n].result.message # <<>>
               /\ task'[n].result.diff = <<>>
               /\ fs' = fs
               /\ dirs' = dirs]_vars
    /\ [](\A n \in TargetNames :
            task[n].result.status = "unchanged"
            => /\ task[n].pc = "done"
               /\ task[n].result.diff = <<>>
               /\ fs[local_path(n)] = File(task[n].new_content))

\* a task ended unchanged over a local file given without a directory part
C16_Witness ==
    \E n \in TargetNames :
        /\ task[n].pc = "done"
        /\ task[n].result.status = "unchanged"
        /\ dirname(local_path(n)) = ""
        /\ dirs = {}

\* C17: whatever compare_files returned, the task goes on from it to the
\* save with the fetched bytes as they were; the write puts these bytes at
\* the local path; and a target that was fetched, differs and has a local
\* path with a directory part ends new or updated with the fetched bytes at
\* its local path, with or without diff lines.
C17_DiffNeverBlocksWrite ==
    /\ [][\A n \in TargetNames :
            task[n].pc = "compare" /\ task'[n] # task[n]
            => /\ task'[n].pc = "makedirs"
               /\ task'[n].new_content = task[n].new_content]_vars
    /\ [][\A n \in TargetNames :
            task[n].pc = "write" /\ task'[n].pc = "done"
            => fs'[local_path(n)] = File(remote[url(n)].data)]_vars
    /\ [](\A n \in TargetNames :
            task[n].pc = "done" /\ FetchedAndDiffers(n)
                /\ dirname(local_path(n)) # ""
            => /\ task[n].result.status \in {"new", "updated"}
               /\ fs[local_path(n)] = File(remote[url(n)].data))

\* a local file was replaced by fetched bytes though compare_files returned
\* no diff lines
C17_Witness ==
    \E n \in TargetNames :
        /\ task[n].pc = "done"
        /\ task[n].result.status = "updated"
        /\ task[n].result.diff = <<>>
        /\ task[n].local_md5 # Md5(task[n].new_content)
        /\ fs[local_path(n)] = File(task[n].new_content)

\* C18: a poll of show_progress ends the loop exactly when every entry of
\* the table is finished, and else leads to another poll; no step of the
\* loop changes the table; the loop, once ended, stays ended; and once every
\* download_file call has ended the loop ends.
C18_LoopStopsWhenAllFinished ==
    /\ [][renderer.pc = "render" /\ renderer' # renderer
          => /\ renderer'.pc = "stopped"
                    <=> \A k \in DOMAIN download_progress : download_progress[k].finished
             /\ renderer'.pc = "poll"
                    <=> \E k \in DOMAIN download_progress : ~download_progress[k].finished]_vars
    /\ [][renderer' # renderer => download_progress' = download_progress]_vars
    /\ [][renderer.pc = "stopped" => renderer'.pc = "stopped"]_vars
    /\ ((\A n \in TargetNames : dl[n].pc = "done") ~> renderer.pc = "stopped")

\* the loop has ended over a table that holds a finished entry for every
\* target, one of them of a download that failed while reading
C18_Witness ==
    /\ renderer.pc = "stopped"
    /\ DOMAIN download_progress = TargetNames
    /\ \A k \in TargetNames : download_progress[k].finished
    /\ \E n \in TargetNames : dl[n].pc = "done" /\ ~dl[n].ok
    /\ \E n \in TargetNames : dl[n].pc = "done" /\ dl[n].ok

\* C19: when the loop of show_progress has ended, every download_file call
\* has ended and the table holds a finished entry for every target.
C19_StopsOnlyAfterEveryTarget ==
    renderer.pc = "stopped"
    => \A n \in TargetNames :
          /\ dl[n].pc = "done"
          /\ n \in DOMAIN download_progress
          /\ download_progress[n].finished

\* C20: a target that was fetched and differs ends new or updated with the
\* fetched bytes at its local path, whatever the form of the local path:
\* with a directory part or a bare file name.
C20_SavedWhateverPathForm ==
    \A n \in TargetNames :
        task[n].pc = "done" /\ FetchedAndDiffers(n)
        => /\ task[n].result.status \in {"new", "updated"}
           /\ fs[local_path(n)] = File(remote[url(n)].data)
====
